---------------------------- MODULE Spec2Model ----------------------------
(***************************************************************************)
(* MulticallService (packages/dai/src/eth/MulticallService.js): the schema *)
(* compiler that turns logical and derived schemas into batch-executor     *)
(* call descriptors and a registry of value streams.                       *)
(*                                                                         *)
(* Text is a sequence of one-character strings, so that split, join and    *)
(* template strings are computed as the JavaScript computes them.  A path  *)
(* is a sequence of segments, each segment a text.                         *)
(***************************************************************************)
EXTENDS Integers, Sequences, FiniteSets, TLC

\* ------------------------------------------------------------------ bounds
MaxSchemas == 2
MaxStreams == 3
MaxCalls == 3
MaxEvents == 2
MaxSubs == 1
MaxStarts == 2
MaxRegistryStreams == 4
MaxParsed == 2

\* ------------------------------------------------------------ text helpers
RECURSIVE Split(_, _)
\* String.prototype.split(c) for a one-character separator c.
Split(s, c) ==
  IF \E i \in 1..Len(s) : s[i] = c
  THEN LET i == CHOOSE j \in 1..Len(s) :
                  s[j] = c /\ \A k \in 1..(j - 1) : s[k] # c
       IN <<SubSeq(s, 1, i - 1)>> \o Split(SubSeq(s, i + 1, Len(s)), c)
  ELSE <<s>>

RECURSIVE Join(_, _)
\* Array.prototype.join(c): the elements separated by c ("" for no element).
Join(parts, c) ==
  IF Len(parts) = 0 THEN <<>>
  ELSE IF Len(parts) = 1 THEN parts[1]
  ELSE parts[1] \o <<c>> \o Join(Tail(parts), c)

\* A map step that leaves the trailing ')' on its fragment.
StripParenKept(s) == s

\* s => s[s.length - 1] === ')' ? s.substring(0, s.length - 1) : s
StripParen(s) ==
  IF Len(s) > 0 /\ s[Len(s)] = ")" THEN SubSeq(s, 1, Len(s) - 1) ELSE s

\* s => s.filter(x => x !== '')
NonEmpty(parts) == SelectSeq(parts, LAMBDA x : Len(x) > 0)

\* The groups of a call signature: split on '(', strip one trailing ')',
\* split on ',', drop the empty strings.
Groups(call) ==
  LET parts == Split(call, "(")
  IN [i \in 1..Len(parts) |-> NonEmpty(Split(StripParen(parts[i]), ","))]

\* destructureContractCall: the first three groups.  Reading .length of a
\* missing third group is a TypeError; an empty third group is the
\* "must return at least one argument" error.
destructureContractCall(call) ==
  LET g == Groups(call)
  IN IF Len(g) < 3
     THEN [err |-> "TypeError", callFnName |-> <<>>, callTypes |-> <<>>,
           returnTypes |-> <<>>]
     ELSE IF Len(g[3]) < 1
     THEN [err |-> "NoReturn", callFnName |-> g[1], callTypes |-> g[2],
           returnTypes |-> g[3]]
     ELSE [err |-> "none", callFnName |-> g[1], callTypes |-> g[2],
           returnTypes |-> g[3]]

\* cb(arg) of a call argument that carries a transform: some function that
\* is not the identity (a prefix is put before the argument).
ArgTransform(arg) == <<"#">> \o arg

\* -------------------------------------------------------------- registry
\* A tree is a set of [path, val]: val is OBJ for a plain object node and a
\* stream id (>= 1) for a stream.  The plain objects above a stream are
\* copied by every merge({}, ...), so observableStore is a value; a stream is
\* an object kept by reference, and what a merge writes below a stream is
\* written into that stream object (its props), seen through every snapshot
\* that holds the stream.
OBJ == 0
ABSENT == -1

IsStream(v) == v >= 1

IsPrefix(p, q) == Len(p) <= Len(q) /\ SubSeq(q, 1, Len(p)) = p

Node(t, p) ==
  IF \E e \in t : e.path = p
  THEN (CHOOSE e \in t : e.path = p).val
  ELSE ABSENT

RECURSIVE GetFrom(_, _, _, _)
\* lodash get: follow the segments of p from the plain node at base of tree
\* t; below a stream the walk continues in the stream's own properties.
GetFrom(streams, t, base, p) ==
  LET q == Append(base, Head(p))
      v == Node(t, q)
  IN IF Len(p) = 1 THEN v
     ELSE IF v = ABSENT THEN ABSENT
     ELSE IF v = OBJ THEN GetFrom(streams, t, q, Tail(p))
     ELSE GetFrom(streams, streams[v].props, <<>>, Tail(p))

\* get(store, pathString): the path string is split on '.'.
get(streams, store, pathString) ==
  GetFrom(streams, store, <<>>, Split(pathString, "."))

RECURSIVE MergeAt(_, _, _, _, _)
\* lodash merge of the single-path entry p -> stream n into the node at base
\* of tree t.  The last segment is assigned (whatever was there, with all
\* below it, is replaced); a plain node on the way is merged into; a missing
\* node is created; a stream on the way is merged into in place.
MergeAt(streams, t, base, p, n) ==
  LET q == Append(base, Head(p))
      v == Node(t, q)
  IN IF Len(p) = 1
     THEN [tree |-> {e \in t : ~IsPrefix(q, e.path)}
                      \cup {[path |-> q, val |-> n]},
           streams |-> streams]
     ELSE IF v = ABSENT
     THEN MergeAt(streams, t \cup {[path |-> q, val |-> OBJ]}, q, Tail(p), n)
     ELSE IF v = OBJ
     THEN MergeAt(streams, t, q, Tail(p), n)
     ELSE LET r == MergeAt(streams, streams[v].props, <<>>, Tail(p), n)
          IN [tree |-> t,
              streams |-> [r.streams EXCEPT ![v].props = r.tree]]

\* merge({}, this.observableStore, entry) where entry nests stream n under
\* the segments of path (item.reduceRight((obj, elem) => ({[elem]: obj}), n)).
merge(streams, store, path, n) == MergeAt(streams, store, <<>>, path, n)


\* ---------------------------------------------------------------- inputs
\* The schemas the callers pass.  Segments and identifiers are short texts.
PathX == << <<"x">> >>
PathXY == << <<"x">>, <<"y">> >>
PathY == << <<"y">> >>
PathD == << <<"d">> >>
PathE == << <<"e">> >>

NoOverrides == [given |-> FALSE, ids |-> <<>>]

\* X.f(a)(u) with one argument "1" and one return key "k", observed at x.
EntryF ==
  [contractName |-> <<"X">>,
   contractCall |-> <<"f", "(", "a", ")", "(", "u", ")">>,
   callArgs |-> << [arg |-> <<"1">>, cb |-> FALSE] >>,
   callArgsOverrides |-> NoOverrides,
   returnKeys |-> << [k |-> <<"k">>, cb |-> FALSE] >>,
   observableKeys |-> <<PathX>>]

\* X.g()(u,v) with no argument and two return keys, the second with a
\* return transform, observed at y and at x.y.
EntryG ==
  [contractName |-> <<"X">>,
   contractCall |-> <<"g", "(", ")", "(", "u", ",", "v", ")">>,
   callArgs |-> <<>>,
   callArgsOverrides |-> NoOverrides,
   returnKeys |-> << [k |-> <<"p">>, cb |-> FALSE], [k |-> <<"q">>, cb |-> TRUE] >>,
   observableKeys |-> <<PathY, PathXY>>]

\* f(a)(u) called with no argument: the argument count does not match.
EntryBadArgs == [EntryF EXCEPT !.callArgs = <<>>, !.observableKeys = <<PathY>>]

\* f(a)(u) with no return key: the return count does not match.
EntryBadReturns == [EntryF EXCEPT !.returnKeys = <<>>, !.observableKeys = <<PathY>>]

LogicalEntries == {EntryF, EntryG, EntryBadArgs, EntryBadReturns}

\* f(a)(u) with one return key and two observable keys.
EntryLongKeys == [EntryF EXCEPT !.observableKeys = <<PathY, PathE>>]

\* f(a)() observed at d: the signature has no return type.
EntryNoReturn ==
  [EntryF EXCEPT !.contractCall = <<"f", "(", "a", ")", "(", ")">>,
                 !.returnKeys = <<>>, !.observableKeys = <<PathD>>]

\* X.h(a)(u) called with the one argument "1.2", observed at x, and
\* X.h(a,b)(u) called with the two arguments "1" and "2", observed at y.
EntryH1 ==
  [EntryF EXCEPT !.contractCall = <<"h", "(", "a", ")", "(", "u", ")">>,
                 !.callArgs = << [arg |-> <<"1", ".", "2">>, cb |-> FALSE] >>]

EntryH2 ==
  [EntryF EXCEPT !.contractCall =
                   <<"h", "(", "a", ",", "b", ")", "(", "u", ")">>,
                 !.callArgs = << [arg |-> <<"1">>, cb |-> FALSE],
                                 [arg |-> <<"2">>, cb |-> FALSE] >>,
                 !.observableKeys = <<PathY>>]

KeyEntries == {EntryF, EntryH1, EntryH2}

\* The entries that register and the entries that fail one way or another.
FailingEntries ==
  {EntryF, EntryG, EntryBadArgs, EntryLongKeys, EntryNoReturn}

SeqsUpTo(S, n) == UNION {[1..k -> S] : k \in 1..n}

LogicalSchemas == SeqsUpTo(LogicalEntries, MaxSchemas)

\* The call signatures callers write.  Signature(name, args, rets) is the
\* text name(t1,...,tn)(r1,...,rm).
Signature(name, args, rets) ==
  name \o <<"(">> \o Join(args, ",") \o <<")", "(">> \o Join(rets, ",")
       \o <<")">>

FnNames == {<<"f">>, <<"g", "o">>}
ArgTypeLists == {<<>>, << <<"a">> >>, << <<"a">>, <<"b", "8">> >>}
ReturnTypeLists == {<< <<"u">> >>, << <<"u">>, <<"v", "2">> >>}

\* Texts that are not a name followed by two groups with a return type:
\* f()(), f(a)(), f(a), f and f(a)(b)(c).
OddSignatures ==
  {[call |-> <<"f", "(", ")", "(", ")">>, nargs |-> 0, nrets |-> 0],
   [call |-> <<"f", "(", "a", ")", "(", ")">>, nargs |-> 1, nrets |-> 0],
   [call |-> <<"f", "(", "a", ")">>, nargs |-> 1, nrets |-> 0],
   [call |-> <<"f">>, nargs |-> 0, nrets |-> 0],
   [call |-> <<"f", "(", "a", ")", "(", "b", ")", "(", "c", ")">>,
    nargs |-> 1, nrets |-> 1]}

\* A schema entry for signature call, with nargs call arguments and nrets
\* return keys, observed at x.
SignatureEntry(call, nargs, nrets) ==
  [contractName |-> <<"X">>,
   contractCall |-> call,
   callArgs |-> SubSeq(<< [arg |-> <<"1">>, cb |-> FALSE],
                          [arg |-> <<"2">>, cb |-> TRUE] >>, 1, nargs),
   callArgsOverrides |-> NoOverrides,
   returnKeys |-> SubSeq(<< [k |-> <<"k">>, cb |-> FALSE],
                            [k |-> <<"q">>, cb |-> TRUE] >>, 1, nrets),
   observableKeys |-> <<PathX>>]

SignatureEntries ==
  {SignatureEntry(Signature(name, args, rets), Len(args), Len(rets)) :
     name \in FnNames, args \in ArgTypeLists, rets \in ReturnTypeLists}
  \cup {SignatureEntry(o.call, o.nargs, o.nrets) : o \in OddSignatures}

\* Entries over the contract names of the address table and its aliases,
\* with and without an argument transform and argument overrides.
ContractNames ==
  {<<"X">>, <<"M", "C", "D", "_", "D", "A", "I">>, <<"E", "T", "H">>,
   <<"M", "D", "A", "I">>, <<"M", "W", "E", "T", "H">>}

DescriptorEntries ==
  {[EntryF EXCEPT !.contractName = c,
                  !.callArgs = << [arg |-> <<"1">>, cb |-> t] >>,
                  !.callArgsOverrides = ov] :
     c \in ContractNames, t \in BOOLEAN,
     ov \in {NoOverrides, [given |-> TRUE, ids |-> << <<"o">> >>]}}
  \cup {[EntryG EXCEPT !.contractName = c] : c \in ContractNames}

\* d = first(x.y, y), e = last(x, d): e depends on d.
DerivedD ==
  [observableKeys |-> PathD, dependencies |-> <<PathXY, PathY>>, fn |-> "first"]
DerivedE ==
  [observableKeys |-> PathE, dependencies |-> <<PathX, PathD>>, fn |-> "last"]

DerivedEntries == {DerivedD, DerivedE}

\* d.e = first(d): a derived entry whose path runs through the path of d.
PathDE == << <<"d">>, <<"e">> >>
DerivedDE ==
  [observableKeys |-> PathDE, dependencies |-> <<PathD>>, fn |-> "first"]

ChainedEntries == {DerivedD, DerivedE, DerivedDE}

DerivedSchemas == SeqsUpTo(DerivedEntries, MaxSchemas)

\* The contract address table, as getContractAddresses() returns it.
ContractAddresses ==
  [name \in {<<"X">>, <<"M", "C", "D", "_", "D", "A", "I">>, <<"E", "T", "H">>} |->
     CASE name = <<"X">> -> 11
       [] name = <<"E", "T", "H">> -> 13
       [] OTHER -> 12]

\* The result events the executor may emit: every fully-qualified key the
\* schemas above can produce, with two values.
EventTypes ==
  {<<"X", ".", "f", ".", "1", ".", "k">>,
   <<"X", ".", "g", ".", ".", "q">>}
Values == {1, 2}
Events == [type : EventTypes, value : Values]

\* The result events of the calls of KeyEntries.
KeyEvents ==
  [type : {<<"X", ".", "f", ".", "1", ".", "k">>,
           <<"X", ".", "h", ".", "1", ".", "2", ".", "k">>},
   value : Values]

\* ----------------------------------------------------------------- state
VARIABLES
  watcher,          \* this._watcher is defined
  calls,            \* the executor's call list (the model the tap transforms)
  listeners,        \* subscriptions this service holds on the executor
  rootObservable,   \* the events the ReplaySubject holds, in order
  rootSubscription, \* this._rootSubscription (NULL is 0)
  rootSubcription,  \* this._rootSubcription, the field startObservable writes
  observableStore,  \* the registry: a tree
  streams,          \* the stream objects created so far, by id
  subscribers,      \* the subscriptions taken on registry streams
  result,           \* how the most recent call ended
  disconnected,     \* disconnect was called since the last startObservable
  everSkipped,      \* the derived entries some call has skipped
  addresses         \* the address table the contract registry supplies

vars ==
  <<watcher, calls, listeners, rootObservable, rootSubscription,
    rootSubcription, observableStore, streams, subscribers, result,
    disconnected, everSkipped, addresses>>

NULL == 0

\* How a call ended: the error it raised ("none" when it returned), the
\* positions of the derived entries it passed over, and the number of
\* streams it put into the registry.
Ok == [err |-> "none", skipped |-> {}, made |-> 0]
Raised(e) == [err |-> e, skipped |-> {}, made |-> 0]

Init ==
  /\ watcher = FALSE
  /\ calls = <<>>
  /\ listeners = 0
  /\ rootObservable = <<>>
  /\ rootSubscription = NULL
  /\ rootSubcription = NULL
  /\ observableStore = {}
  /\ streams = <<>>
  /\ subscribers = {}
  /\ result = Ok
  /\ disconnected = FALSE
  /\ everSkipped = {}
  /\ addresses = ContractAddresses

\* --------------------------------------------------------------- streams
\* A stream object.  kind "filtered": this._rootObservable.pipe(filter(type
\* === key), map(value)); kind "derived": what a combining function returned
\* for args.  entry and idx say which schema entry, and which of its
\* observableKeys, the stream was built for.
FilteredObservable(key, entry, idx) ==
  [kind |-> "filtered", key |-> key, args |-> <<>>, fn |-> "none",
   props |-> {}, entry |-> entry, idx |-> idx]

DerivedObservable(fn, args, entry) ==
  [kind |-> "derived", key |-> <<>>, args |-> args, fn |-> fn,
   props |-> {}, entry |-> entry, idx |-> 0]

\* What the combining functions add to each value they pass on.
DerivedOffset == 100

\* The dependency a combining function reads: "first" is
\* ([a, ...]) => a.pipe(map(v => v + 100)), "last" the same on the last one.
Picked(fn, args) == IF fn = "first" THEN args[1] ELSE args[Len(args)]

\* filter(({ type }) => type === key)
FilterType(key, ev) == ev.type = key

\* A projection that also applies a decode transform to the value.
MapValueTransformed(ev) == ev.value + 10

\* map(({ value }) => value)
MapValue(ev) == ev.value

RECURSIVE Emits(_, _, _)
\* The values stream n passes to one of its subscribers when event ev goes
\* through the root observable.
Emits(ss, n, ev) ==
  IF ss[n].kind = "filtered"
  THEN IF FilterType(ss[n].key, ev) THEN <<MapValue(ev)>> ELSE <<>>
  ELSE LET up == Emits(ss, Picked(ss[n].fn, ss[n].args), ev)
       IN [i \in 1..Len(up) |-> up[i] + DerivedOffset]

RECURSIVE ReplayOf(_, _, _)
ReplayOf(ss, n, buffer) ==
  IF Len(buffer) = 0 THEN <<>>
  ELSE Emits(ss, n, Head(buffer)) \o ReplayOf(ss, n, Tail(buffer))

\* A plain Subject: a new subscriber is given nothing of what went before.
ReplayNothing(ss, n, buffer) == <<>>

\* new ReplaySubject(): a new subscriber is first given every event the
\* subject has been given so far.
Replay(ss, n, buffer) == ReplayOf(ss, n, buffer)

RECURSIVE Times(_, _)
Times(s, k) == IF k = 0 THEN <<>> ELSE s \o Times(s, k - 1)

\* ------------------------------------------------- registerLogicalSchema
\* let addresses = this.get('smartContract').getContractAddresses(): the
\* contract registry hands out its address table.
getContractAddresses(table) == table

\* A seeding that writes the two aliases the other way round.
SeedAliasesSwapped(table) ==
  [name \in DOMAIN table
            \cup {<<"M", "D", "A", "I">>, <<"M", "W", "E", "T", "H">>} |->
     IF name = <<"M", "D", "A", "I">>
     THEN table[<<"E", "T", "H">>]
     ELSE IF name = <<"M", "W", "E", "T", "H">>
     THEN table[<<"M", "C", "D", "_", "D", "A", "I">>]
     ELSE table[name]]

\* addresses.MDAI = addresses.MCD_DAI; addresses.MWETH = addresses.ETH
SeedAliases(table) ==
  [name \in DOMAIN table
            \cup {<<"M", "D", "A", "I">>, <<"M", "W", "E", "T", "H">>} |->
     IF name = <<"M", "D", "A", "I">>
     THEN table[<<"M", "C", "D", "_", "D", "A", "I">>]
     ELSE IF name = <<"M", "W", "E", "T", "H">>
     THEN table[<<"E", "T", "H">>]
     ELSE table[name]]

\* The table as registerLogicalSchema reads it.
Addresses == SeedAliases(getContractAddresses(ContractAddresses))

\* addresses[contractName]; 0 stands for undefined.
Target(contractName) ==
  IF contractName \in DOMAIN Addresses THEN Addresses[contractName] ELSE 0

\* callArgsOverrides ? callArgsOverrides.join('.') : callArgs.map(a => a[0]).join('.')
callArgsIdentifiers(e) ==
  IF e.callArgsOverrides.given
  THEN Join(e.callArgsOverrides.ids, ".")
  ELSE Join([i \in 1..Len(e.callArgs) |-> e.callArgs[i].arg], ".")

\* `${contractName}.${callFnName}.${callArgsIdentifiers}`: callFnName is the
\* first group, an array, which the template joins with ','.
callKeyStructure(e, callFnName) ==
  e.contractName \o <<".">> \o Join(callFnName, ",") \o <<".">>
    \o callArgsIdentifiers(e)

\* callArgs.map(([arg, cb]) => cb === undefined ? arg : cb(arg))
processedCallArgs(e) ==
  [i \in 1..Len(e.callArgs) |->
     IF e.callArgs[i].cb THEN ArgTransform(e.callArgs[i].arg)
     ELSE e.callArgs[i].arg]

\* returnKeys.map(([k, cb]) => [`${callKeyStructure}.${k}`, cb].filter(x => x))
processedReturnKeys(e, callFnName) ==
  [i \in 1..Len(e.returnKeys) |->
     [key |-> callKeyStructure(e, callFnName) \o <<".">> \o e.returnKeys[i].k,
      cb |-> e.returnKeys[i].cb]]

RECURSIVE ForEachObservableKey(_, _, _, _)
\* observableKeys.forEach((item, idx) => ...): reading
\* processedReturnKeys[idx][0] for the log line throws a TypeError when there
\* is no return key at idx; the merges done before it stay.
ForEachObservableKey(acc, e, keys, idx) ==
  IF idx > Len(e.observableKeys) THEN acc
  ELSE IF idx > Len(keys) THEN [acc EXCEPT !.err = "TypeError"]
  ELSE LET n == Len(acc.streams) + 1
           s == FilteredObservable(keys[idx].key, e, idx)
           m == merge(Append(acc.streams, s), acc.store, e.observableKeys[idx], n)
       IN ForEachObservableKey(
            [acc EXCEPT !.store = m.tree, !.streams = m.streams], e, keys, idx + 1)

\* The reducer's body for one schema entry; acc holds the descriptors built so
\* far, the registry and the streams.
ReduceEntry(acc, e) ==
  LET d == destructureContractCall(e.contractCall)
  IN IF d.err # "none" THEN [acc EXCEPT !.err = d.err]
     ELSE IF Len(d.callTypes) # Len(e.callArgs)
     THEN [acc EXCEPT !.err = "ArgCount"]
     ELSE IF Len(d.returnTypes) # Len(e.returnKeys)
     THEN [acc EXCEPT !.err = "ReturnCount"]
     ELSE LET keys == processedReturnKeys(e, d.callFnName)
              a == ForEachObservableKey(acc, e, keys, 1)
          IN IF a.err # "none" THEN a
             ELSE [a EXCEPT !.descs =
                     Append(a.descs,
                            [target |-> Target(e.contractName),
                             call |-> <<e.contractCall>> \o processedCallArgs(e),
                             returns |-> keys])]

RECURSIVE Reduce(_, _)
\* schemas.reduce(..., []): an entry that throws ends the reduction.
Reduce(acc, schemas) ==
  IF Len(schemas) = 0 \/ acc.err # "none" THEN acc
  ELSE Reduce(ReduceEntry(acc, Head(schemas)), Tail(schemas))

\* A transform that returns the new descriptors alone.
TapReplace(cs, descs) == descs

\* The transform given to the executor's tap: calls => [...calls, ...descs].
TapTransform(cs, descs) == cs \o descs

\* The whole compilation from registry store and streams ss.
CompileLogical(store, ss, schemas) ==
  Reduce([store |-> store, streams |-> ss, descs |-> <<>>, err |-> "none"],
         schemas)

registerLogicalSchema(schemas) ==
  /\ addresses' = SeedAliases(getContractAddresses(addresses))
  /\ IF ~watcher
     THEN /\ result' = Raised("TypeError")
          /\ UNCHANGED <<watcher, calls, listeners, rootObservable,
                         rootSubscription, rootSubcription, observableStore,
                         streams, subscribers, disconnected, everSkipped>>
     ELSE LET r == CompileLogical(observableStore, streams, schemas)
          IN /\ observableStore' = r.store
             /\ streams' = r.streams
             /\ calls' = IF r.err = "none" THEN TapTransform(calls, r.descs)
                         ELSE calls
             /\ result' = [err |-> r.err, skipped |-> {},
                            made |-> Len(r.streams) - Len(streams)]
             /\ UNCHANGED <<watcher, listeners, rootObservable,
                            rootSubscription, rootSubcription, subscribers,
                            disconnected, everSkipped>>

\* ------------------------------------------------- registerDerivedSchema
\* getObservable(pathString)
getObservable(ss, store, pathString) == get(ss, store, pathString)

\* The dependencies looked up last to first.
dependentObservablesReversed(ss, store, d) ==
  [i \in 1..Len(d.dependencies) |->
     getObservable(ss, store,
                   Join(d.dependencies[Len(d.dependencies) + 1 - i], "."))]

\* dependencies.map(d => this.getObservable(d.join('.')))
dependentObservables(ss, store, d) ==
  [i \in 1..Len(d.dependencies) |->
     getObservable(ss, store, Join(d.dependencies[i], "."))]

\* A test that is satisfied by one dependency that exists.
someDependentObservableExists(deps) ==
  \E i \in 1..Len(deps) : deps[i] # ABSENT

\* !dependentObservables.some(x => !!x === false): undefined is the only
\* falsy value a lookup gives.
allDependentObservablesExist(deps) ==
  ~(\E i \in 1..Len(deps) : deps[i] = ABSENT)

\* The forEach body for one derived entry at position i of the list.  invoked
\* logs the calls of combining functions; skipped the positions passed over.
DerivedEntry(acc, d, i) ==
  LET deps == dependentObservables(acc.streams, acc.store, d)
  IN IF ~allDependentObservablesExist(deps)
     THEN [acc EXCEPT !.skipped = @ \cup {i}]
     ELSE IF ~IsStream(Picked(d.fn, deps))
     THEN [acc EXCEPT !.err = "TypeError",
                      !.invoked = Append(@, [at |-> i, args |-> deps])]
     ELSE LET n == Len(acc.streams) + 1
              s == DerivedObservable(d.fn, deps, d)
              m == merge(Append(acc.streams, s), acc.store, d.observableKeys, n)
          IN [acc EXCEPT !.store = m.tree, !.streams = m.streams,
                         !.invoked = Append(@, [at |-> i, args |-> deps])]

RECURSIVE ForEachDerived(_, _, _)
ForEachDerived(acc, schemas, i) ==
  IF i > Len(schemas) \/ acc.err # "none" THEN acc
  ELSE ForEachDerived(DerivedEntry(acc, schemas[i], i), schemas, i + 1)

CompileDerived(store, ss, schemas) ==
  ForEachDerived([store |-> store, streams |-> ss, err |-> "none",
                  skipped |-> {}, invoked |-> <<>>], schemas, 1)

registerDerivedSchema(schemas) ==
  LET r == CompileDerived(observableStore, streams, schemas)
  IN /\ observableStore' = r.store
     /\ streams' = r.streams
     /\ result' = [err |-> r.err, skipped |-> r.skipped,
                    made |-> Len(r.streams) - Len(streams)]
     /\ everSkipped' = everSkipped \cup {schemas[i] : i \in r.skipped}
     /\ UNCHANGED <<addresses, watcher, calls, listeners, rootObservable, rootSubscription,
                    rootSubcription, subscribers, disconnected>>

\* -------------------------------------------------------------- lifecycle
\* createWatcher: this._watcher = createWatcher([], config), a new executor
\* with an empty call list.  It is called once.
createWatcher ==
  /\ ~watcher
  /\ watcher' = TRUE
  /\ calls' = <<>>
  /\ result' = Ok
  /\ UNCHANGED <<addresses, listeners, rootObservable, rootSubscription, rootSubcription,
                 observableStore, streams, subscribers, disconnected,
                 everSkipped>>

\* startObservable: the test reads _rootSubscription, the assignment writes
\* _rootSubcription.
startObservable ==
  IF ~watcher
  THEN /\ result' = Raised("WatcherUndefined")
       /\ UNCHANGED <<addresses, watcher, calls, listeners, rootObservable,
                      rootSubscription, rootSubcription, observableStore,
                      streams, subscribers, disconnected, everSkipped>>
  ELSE /\ IF rootSubscription = NULL
          THEN /\ listeners' = listeners + 1
               /\ rootSubcription' = listeners + 1
          ELSE UNCHANGED <<listeners, rootSubcription>>
       /\ result' = Ok
       /\ disconnected' = FALSE
       /\ UNCHANGED <<addresses, watcher, calls, rootObservable, rootSubscription,
                      observableStore, streams, subscribers, everSkipped>>

\* A teardown that calls this._rootSubscription.unsubscribe() without a test:
\* a TypeError when there is no subscription.
disconnectUnguarded(ls, sub) ==
  IF sub = NULL
  THEN [listeners |-> ls, rootSubscription |-> sub, err |-> "TypeError"]
  ELSE [listeners |-> ls - 1, rootSubscription |-> NULL, err |-> "none"]

\* The body of disconnect, on the fields a teardown would touch: it is empty.
disconnectBody(ls, sub) ==
  [listeners |-> ls, rootSubscription |-> sub, err |-> "none"]

disconnect ==
  LET r == disconnectBody(listeners, rootSubscription)
  IN /\ listeners' = r.listeners
     /\ rootSubscription' = r.rootSubscription
     /\ result' = Raised(r.err)
     /\ disconnected' = TRUE
     /\ UNCHANGED <<addresses, watcher, calls, rootObservable, rootSubcription,
                    observableStore, streams, subscribers, everSkipped>>

\* The executor emits one update: every subscription this service holds on
\* it runs updates => this._rootObservable.next(updates), and the root
\* observable passes the event to the subscribers of its streams.
watcherUpdate(ev) ==
  /\ watcher
  /\ rootObservable' = rootObservable \o Times(<<ev>>, listeners)
  /\ subscribers' =
       {[sub EXCEPT !.received =
           @ \o Times(Emits(streams, sub.stream, ev), listeners)] :
        sub \in subscribers}
  /\ UNCHANGED <<addresses, watcher, calls, listeners, rootSubscription, rootSubcription,
                 observableStore, streams, result, disconnected, everSkipped>>

\* A caller subscribes to the stream getObservable finds at path.  since is
\* the number of events the root observable held at that moment.  Two
\* subscriptions taken on the same stream at the same moment receive the same
\* values and are kept as one.
subscribe(path) ==
  LET n == getObservable(streams, observableStore, Join(path, "."))
  IN /\ IsStream(n)
     /\ subscribers' =
          subscribers \cup
            {[stream |-> n, since |-> Len(rootObservable),
              received |-> Replay(streams, n, rootObservable)]}
     /\ UNCHANGED <<addresses, watcher, calls, listeners, rootObservable, rootSubscription,
                    rootSubcription, observableStore, streams, result,
                    disconnected, everSkipped>>

SubscribePaths == {PathX, PathXY, PathY, PathD, PathE}

\* The bounds of the model: the numbers of streams, descriptors, events,
\* subscriptions and startObservable calls a run may reach.
Bounded ==
  /\ Len(streams') <= MaxStreams
  /\ Len(calls') <= MaxCalls
  /\ Len(rootObservable') <= MaxEvents
  /\ Cardinality(subscribers') <= MaxSubs
  /\ listeners' <= MaxStarts

\* The service with its streams: one-entry registrations of the well-formed
\* entries, the lifecycle calls, the executor's updates and the subscribers.
Next ==
  \/ createWatcher
  \/ startObservable /\ Bounded
  \/ disconnect
  \/ \E e \in {EntryF, EntryG} : registerLogicalSchema(<<e>>) /\ Bounded
  \/ registerDerivedSchema(<<DerivedD>>) /\ Bounded
  \/ \E ev \in Events : watcherUpdate(ev) /\ Bounded
  \/ \E path \in SubscribePaths : subscribe(path) /\ Bounded

Spec == Init /\ [][Next]_vars

\* The Result Stream and its filtered streams: registrations of the
\* well-formed entries, the executor's updates and the subscribers.
NextStreams ==
  \/ createWatcher
  \/ startObservable /\ Bounded
  \/ \E e \in {EntryF, EntryG} : registerLogicalSchema(<<e>>) /\ Bounded
  \/ \E ev \in Events : watcherUpdate(ev) /\ Bounded
  \/ \E path \in SubscribePaths : subscribe(path) /\ Bounded

SpecStreams == Init /\ [][NextStreams]_vars

\* A derived stream over the two streams of one logical entry.
NextDerived ==
  \/ createWatcher
  \/ startObservable /\ Bounded
  \/ registerLogicalSchema(<<EntryG>>) /\ Bounded
  \/ registerDerivedSchema(<<DerivedD>>) /\ Bounded
  \/ \E ev \in Events : watcherUpdate(ev) /\ Bounded
  \/ \E path \in SubscribePaths : subscribe(path) /\ Bounded

SpecDerived == Init /\ [][NextDerived]_vars

\* The connection to the executor and its teardown, with one stream.
NextLifecycle ==
  \/ createWatcher
  \/ startObservable /\ Bounded
  \/ disconnect
  \/ registerLogicalSchema(<<EntryF>>) /\ Bounded
  \/ \E ev \in Events : watcherUpdate(ev) /\ Bounded
  \/ \E path \in SubscribePaths : subscribe(path) /\ Bounded

SpecLifecycle == Init /\ [][NextLifecycle]_vars

BoundedRegistry ==
  /\ Len(streams') <= MaxRegistryStreams
  /\ Len(calls') <= MaxCalls

\* The registrations alone, with every list of schema entries.
NextRegistry ==
  \/ createWatcher
  \/ \E schemas \in LogicalSchemas :
       registerLogicalSchema(schemas) /\ BoundedRegistry
  \/ \E schemas \in DerivedSchemas :
       registerDerivedSchema(schemas) /\ BoundedRegistry

SpecRegistry == Init /\ [][NextRegistry]_vars

BoundedParse == Len(calls') <= MaxParsed

\* The parser at work: one-entry registrations over the call signatures.
NextParse ==
  \/ createWatcher
  \/ \E e \in SignatureEntries :
       registerLogicalSchema(<<e>>) /\ BoundedParse

SpecParse == Init /\ [][NextParse]_vars

\* The descriptors: one-entry registrations over the contract names.
NextDescriptors ==
  \/ createWatcher
  \/ \E e \in DescriptorEntries :
       registerLogicalSchema(<<e>>) /\ BoundedParse

SpecDescriptors == Init /\ [][NextDescriptors]_vars

\* Registrations whose lists mix entries that register with entries that fail.
NextFailing ==
  \/ createWatcher
  \/ \E schemas \in SeqsUpTo(FailingEntries, MaxSchemas) :
       registerLogicalSchema(schemas) /\ BoundedRegistry

SpecFailing == Init /\ [][NextFailing]_vars

\* Derived lists whose entries depend on one another, over the two logical
\* entries.
NextChained ==
  \/ createWatcher
  \/ \E e \in {EntryF, EntryG} :
       registerLogicalSchema(<<e>>) /\ BoundedRegistry
  \/ \E schemas \in SeqsUpTo(ChainedEntries, MaxSchemas) :
       registerDerivedSchema(schemas) /\ BoundedRegistry

SpecChained == Init /\ [][NextChained]_vars

\* The call keys at work: calls that differ in their arguments, the
\* executor's results for them and the subscribers of their streams.
NextKeys ==
  \/ createWatcher
  \/ startObservable /\ Bounded
  \/ \E e \in KeyEntries : registerLogicalSchema(<<e>>) /\ Bounded
  \/ \E ev \in KeyEvents : watcherUpdate(ev) /\ Bounded
  \/ \E path \in SubscribePaths : subscribe(path) /\ Bounded

SpecKeys == Init /\ [][NextKeys]_vars

\* ---------------------------------------------------------------- claims
Paths == SubscribePaths

\* lookup(path) in the current and in the next state.
Lookup(path) == getObservable(streams, observableStore, Join(path, "."))
LookupNext(path) == getObservable(streams', observableStore', Join(path, "."))

\* The events of buffer whose type is key, as their values, in order.
ValuesOfType(buffer, key) ==
  LET hits == SelectSeq(buffer, LAMBDA ev : ev.type = key)
  IN [i \in 1..Len(hits) |-> hits[i].value]

\* "C.F.A.K" for return key i of entry e: contract name, parsed function
\* name, argument identifiers and return key, joined by '.'.
FullyQualifiedKey(e, i) ==
  Join(<<e.contractName,
         Join(destructureContractCall(e.contractCall).callFnName, ","),
         IF e.callArgsOverrides.given
         THEN Join(e.callArgsOverrides.ids, ".")
         ELSE Join([j \in 1..Len(e.callArgs) |-> e.callArgs[j].arg], "."),
         e.returnKeys[i].k>>, ".")

\* C1: the stream found at a registry path P was built for an entry and an
\* index i with observableKeys[i] = P, and each time an event goes through
\* the Result Stream every subscriber of that stream is given the event's
\* value, unmodified, when the event's type is the entry's "C.F.A.K" for
\* return key i, and is given nothing when the type differs.
C1_FilteredDelivery ==
  [][\A ev \in Events :
       watcherUpdate(ev) =>
         \A P \in Paths :
           LET n == Lookup(P)
           IN (IsStream(n) /\ streams[n].kind = "filtered") =>
                LET e == streams[n].entry
                    i == streams[n].idx
                    passes == Len(rootObservable') - Len(rootObservable)
                    given == IF ev.type = FullyQualifiedKey(e, i)
                             THEN <<ev.value>> ELSE <<>>
                IN /\ e.observableKeys[i] = P
                   /\ \A sub \in subscribers :
                        sub.stream = n =>
                          [sub EXCEPT !.received = @ \o Times(given, passes)]
                            \in subscribers'
                   /\ Cardinality(subscribers') <= Cardinality(subscribers)]_vars

\* C1 witness: a subscriber of a stream registered for a return key that
\* carries a transform has been given a value as it arrived, and an event of
\* another type has gone through the Result Stream since it subscribed.
C1_Witness ==
  \E sub \in subscribers :
    /\ streams[sub.stream].kind = "filtered"
    /\ streams[sub.stream].entry.returnKeys[streams[sub.stream].idx].cb
    /\ Lookup(streams[sub.stream].entry.observableKeys[streams[sub.stream].idx])
         = sub.stream
    /\ \E j \in (sub.since + 1)..Len(rootObservable) :
         rootObservable[j].type = streams[sub.stream].key
    /\ \E j \in (sub.since + 1)..Len(rootObservable) :
         rootObservable[j].type # streams[sub.stream].key
    /\ Len(sub.received) = 1

\* C2: every subscriber of a filtered stream has received the values of all
\* the events of its stream's type that went through the Result Stream since
\* the Result Stream was created, those from before it subscribed included,
\* in order, with repetitions kept.
C2_ReplayBroadcast ==
  \A sub \in subscribers :
    streams[sub.stream].kind = "filtered" =>
      sub.received = ValuesOfType(rootObservable, streams[sub.stream].key)

\* C2 witness: a subscriber that joined after a matching event had gone
\* through has that event and a later one.
C2_Witness ==
  \E sub \in subscribers :
    /\ streams[sub.stream].kind = "filtered"
    /\ sub.since >= 1
    /\ \E j \in 1..sub.since :
         rootObservable[j].type = streams[sub.stream].key
    /\ \E j \in (sub.since + 1)..Len(rootObservable) :
         rootObservable[j].type = streams[sub.stream].key
    /\ Len(sub.received) >= 2

\* An entry whose callArgs count differs from the parsed argument-type
\* count, or whose returnKeys count differs from the parsed return-type
\* count.
ArityMismatch(e) ==
  LET d == destructureContractCall(e.contractCall)
  IN \/ Len(d.callTypes) # Len(e.callArgs)
     \/ Len(d.returnTypes) # Len(e.returnKeys)

\* C3: a registerLogicalSchema call whose list holds, at any position, an
\* entry with an arity mismatch raises an error and leaves the registry and
\* the executor's call list as they were.
C3_ArityMismatchNoEffect ==
  [][\A schemas \in LogicalSchemas :
       (/\ registerLogicalSchema(schemas)
        /\ \E i \in 1..Len(schemas) : ArityMismatch(schemas[i]))
       => /\ result'.err # "none"
          /\ observableStore' = observableStore
          /\ calls' = calls]_vars

\* C4: the call list only grows at its end, and a registerLogicalSchema call
\* that returns leaves the prior call list as it was, followed by one
\* descriptor per schema entry, in entry order.
C4_AdditiveSubmission ==
  [][/\ IsPrefix(calls, calls')
     /\ \A schemas \in LogicalSchemas :
          (result'.err = "none" /\ registerLogicalSchema(schemas))
          => /\ Len(calls') = Len(calls) + Len(schemas)
             /\ \A i \in 1..Len(schemas) :
                  /\ calls'[Len(calls) + i].call[1] = schemas[i].contractCall
                  /\ Len(calls'[Len(calls) + i].returns)
                       = Len(schemas[i].returnKeys)]_vars

\* C4 witness: one entry was registered twice, by two calls, and the call
\* list holds its descriptor twice.
C4_Witness ==
  /\ result.err = "none"
  /\ result.made = 1
  /\ \E i, j \in 1..Len(calls) : i < j /\ calls[i] = calls[j]

\* C5: a path at which lookup gives a stream gives a stream after every
\* later call.
C5_MonotoneRegistry ==
  [][\A P \in Paths : IsStream(Lookup(P)) => IsStream(LookupNext(P))]_vars

\* The paths neither of which is a prefix of the other.
Disjoint(P, Q) == ~IsPrefix(P, Q) /\ ~IsPrefix(Q, P)

\* C6: a call that registers one stream at path P leaves the streams at the
\* paths disjoint from P resolvable as they were, and, when P held a stream
\* already, makes lookup at P give the newer stream and leaves the stream at
\* every other path as it was.
C6_MergeSemantics ==
  [][\A e \in LogicalEntries :
       (/\ registerLogicalSchema(<<e>>)
        /\ result'.err = "none"
        /\ Len(e.observableKeys) = 1)
       => LET P == e.observableKeys[1]
          IN /\ LookupNext(P) = Len(streams')
             /\ \A Q \in Paths : Disjoint(P, Q) => LookupNext(Q) = Lookup(Q)
             /\ IsStream(Lookup(P)) =>
                  /\ LookupNext(P) # Lookup(P)
                  /\ \A Q \in Paths \ {P} : LookupNext(Q) = Lookup(Q)]_vars

\* The part of C6 that the code keeps: the newer stream at P, and the
\* streams at the paths disjoint from P as they were.
C6_DisjointAndLastWins ==
  [][\A e \in LogicalEntries :
       (/\ registerLogicalSchema(<<e>>)
        /\ result'.err = "none"
        /\ Len(e.observableKeys) = 1)
       => LET P == e.observableKeys[1]
          IN /\ LookupNext(P) = Len(streams')
             /\ \A Q \in Paths : Disjoint(P, Q) => LookupNext(Q) = Lookup(Q)
             /\ IsStream(Lookup(P)) => LookupNext(P) # Lookup(P)]_vars

\* The registry and the streams at the moment entry i of a derived list is
\* processed: after the entries before it.
Before(schemas, i) ==
  CompileDerived(observableStore, streams, SubSeq(schemas, 1, i - 1))

\* A dependency of d does not resolve in the registry of run r.
Unmet(r, d) ==
  \E k \in 1..Len(d.dependencies) :
    getObservable(r.streams, r.store, Join(d.dependencies[k], ".")) = ABSENT

\* C7: in a registerDerivedSchema call, an entry with a dependency that does
\* not resolve when the entry is processed is passed over: its combining
\* function is not invoked, the registry is as it was before the entry, no
\* error is raised, and every other entry of the list is processed.
C7_SoftSkip ==
  [][\A schemas \in DerivedSchemas :
       registerDerivedSchema(schemas) =>
         LET r == CompileDerived(observableStore, streams, schemas)
         IN \A i \in 1..Len(schemas) :
              Unmet(Before(schemas, i), schemas[i]) =>
                LET b == Before(schemas, i)
                    a == CompileDerived(observableStore, streams,
                                        SubSeq(schemas, 1, i))
                IN /\ a.store = b.store
                   /\ a.streams = b.streams
                   /\ a.invoked = b.invoked
                   /\ a.err = "none"
                   /\ i \in result'.skipped
                   /\ result'.err = "none"
                   /\ \A j \in 1..Len(schemas) :
                        \/ j \in result'.skipped
                        \/ \E k \in 1..Len(r.invoked) : r.invoked[k].at = j]_vars

\* C7 witness: a call passed over its first entry and registered the stream
\* of its second.
C7_Witness ==
  /\ result.skipped = {1}
  /\ result.made = 1
  /\ result.err = "none"
  /\ streams[Len(streams)].kind = "derived"

\* The values a subscriber of derived stream n is due: the values the
\* dependency its combining function reads has passed on, each with the
\* function's offset.
RECURSIVE Due(_)
Due(n) ==
  IF streams[n].kind = "filtered"
  THEN ValuesOfType(rootObservable, streams[n].key)
  ELSE LET up == Due(IF streams[n].fn = "first" THEN streams[n].args[1]
                     ELSE streams[n].args[Len(streams[n].args)])
       IN [i \in 1..Len(up) |-> up[i] + DerivedOffset]

\* C8: when registerDerivedSchema is called with an entry whose dependencies
\* all resolve to streams (as they do once a missing dependency has been
\* registered), the combining function is invoked once, with the streams
\* found at the dependency paths in the order the dependencies are declared,
\* and its result is found at the entry's observableKeys path; and every
\* subscriber of a derived stream has received the combined value of every
\* value that went through the dependency, before or after the compilation.
C8_LiveOnRecompilation ==
  /\ [][\A d \in DerivedEntries :
          (/\ registerDerivedSchema(<<d>>)
           /\ \A k \in 1..Len(d.dependencies) :
                IsStream(Lookup(d.dependencies[k])))
          => LET r == CompileDerived(observableStore, streams, <<d>>)
                 n == LookupNext(d.observableKeys)
             IN /\ Len(r.invoked) = 1
                /\ r.invoked[1].args =
                     [k \in 1..Len(d.dependencies) |->
                        Lookup(d.dependencies[k])]
                /\ result'.err = "none"
                /\ result'.skipped = {}
                /\ n = Len(streams')
                /\ n > Len(streams)
                /\ streams'[n].kind = "derived"
                /\ streams'[n].args = r.invoked[1].args]_vars
  /\ [](\A sub \in subscribers :
          streams[sub.stream].kind = "derived" =>
            sub.received = Due(sub.stream))

\* C8 witness: an entry that a call passed over is registered now, and a
\* subscriber of its stream has the combined value of a value that went
\* through the dependency before the subscriber joined and of one that went
\* through after.
C8_Witness ==
  \E sub \in subscribers :
    /\ streams[sub.stream].kind = "derived"
    /\ streams[sub.stream].entry \in everSkipped
    /\ Lookup(streams[sub.stream].entry.observableKeys) = sub.stream
    /\ sub.since >= 1
    /\ Len(sub.received) = 2
    /\ \E j \in 1..sub.since :
         sub.received[1] = rootObservable[j].value + DerivedOffset

\* C9: once disconnect has been called on a connected service, an event the
\* executor emits is not forwarded into the Result Stream and reaches no
\* subscriber.
C9_TeardownAtDisconnect ==
  [][(/\ disconnected
      /\ listeners >= 1
      /\ \E ev \in Events : watcherUpdate(ev))
     => /\ rootObservable' = rootObservable
        /\ subscribers' = subscribers]_vars

\* C10: disconnect raises no error and leaves the registry, the Result
\* Stream, the subscriptions and the call list as they were, in every state;
\* a second disconnect gives what the first gave.
C10_DisconnectIdempotent ==
  /\ [][disconnect =>
          /\ result'.err = "none"
          /\ UNCHANGED <<addresses, watcher, calls, listeners, rootObservable,
                         rootSubscription, rootSubcription, observableStore,
                         streams, subscribers>>]_vars
  /\ [](LET once == disconnectBody(listeners, rootSubscription)
            twice == disconnectBody(once.listeners, once.rootSubscription)
        IN once.err = "none" /\ twice = once)

\* C10 witness: disconnect was called, without error, on a service that is
\* connected to the executor and has forwarded an event.
C10_Witness ==
  /\ disconnected
  /\ result.err = "none"
  /\ listeners >= 1
  /\ Len(rootObservable) >= 1

\* The number of times character c occurs in text s.
Count(s, c) == Cardinality({i \in 1..Len(s) : s[i] = c})

\* A text that is a name followed by exactly two parenthesized groups, the
\* second with a type in it: name(...)(...), no other parenthesis.
TwoGroups(call) ==
  LET parts == Split(call, "(")
  IN /\ Len(parts) = 3
     /\ Count(call, ")") = 2
     /\ Len(parts[1]) > 0
     /\ \A i \in 2..3 : Len(parts[i]) > 0 /\ parts[i][Len(parts[i])] = ")"

EmptyReturnGroup(call) ==
  LET parts == Split(call, "(")
  IN Len(parts) >= 3 /\ Len(parts[3]) <= 1

\* C11: a registerLogicalSchema call, on a service with an executor, whose entry's signature has an empty
\* return-type group, or is not a name followed by exactly two parenthesized
\* groups, raises the "call must return at least one argument" error of the
\* parser and submits no descriptor.
C11_MalformedSignatureFails ==
  [][\A e \in SignatureEntries :
       (/\ watcher
        /\ registerLogicalSchema(<<e>>)
        /\ (EmptyReturnGroup(e.contractCall) \/ ~TwoGroups(e.contractCall)))
       => /\ destructureContractCall(e.contractCall).err = "NoReturn"
          /\ result'.err = "NoReturn"
          /\ calls' = calls]_vars

\* C12: for a signature name(t1,...,tn)(r1,...,rm), n >= 0, m >= 1, in an
\* entry registered on a service with an executor, the parser gives the name as its first group, the argument types t1..tn in
\* order as its second and the return types r1..rm in order as its third,
\* and the call key of the submitted descriptor carries exactly name between
\* the contract name and the argument identifiers.
C12_ParseValidSignature ==
  [][\A name \in FnNames, args \in ArgTypeLists, rets \in ReturnTypeLists :
       LET e == SignatureEntry(Signature(name, args, rets), Len(args), Len(rets))
           d == destructureContractCall(e.contractCall)
       IN (watcher /\ registerLogicalSchema(<<e>>)) =>
            /\ d.err = "none"
            /\ d.callFnName = <<name>>
            /\ d.callTypes = args
            /\ d.returnTypes = rets
            /\ result'.err = "none"
            /\ Len(calls') = Len(calls) + 1
            /\ calls'[Len(calls')].returns[1].key =
                 Join(<<e.contractName, name, callArgsIdentifiers(e),
                        e.returnKeys[1].k>>, ".")]_vars

\* C12 witness: a signature with no argument type and one with two argument
\* types and two return types have been parsed and submitted.
C12_Witness ==
  /\ \E i \in 1..Len(calls) :
       calls[i].call = <<Signature(<<"f">>, <<>>, << <<"u">> >>)>>
  /\ \E i \in 1..Len(calls) :
       /\ Len(calls[i].call) = 3
       /\ Len(calls[i].returns) = 2
       /\ calls[i].call[1] =
            Signature(<<"g", "o">>, << <<"a">>, <<"b", "8">> >>,
                      << <<"u">>, <<"v", "2">> >>)

\* C13: on a service without an executor, startObservable and
\* registerLogicalSchema raise an error and leave the registry, the Result
\* Stream and the contract address table as they were.
C13_NoExecutorNoEffect ==
  [][(/\ ~watcher
      /\ \/ startObservable
         \/ \E e \in LogicalEntries : registerLogicalSchema(<<e>>))
     => /\ result'.err # "none"
        /\ observableStore' = observableStore
        /\ rootObservable' = rootObservable
        /\ addresses' = addresses]_vars

\* The address the table gives for a contract name, the alias MDAI standing
\* for MCD_DAI and the alias MWETH for ETH.
Resolved(table, name) ==
  IF name = <<"M", "D", "A", "I">>
  THEN table[<<"M", "C", "D", "_", "D", "A", "I">>]
  ELSE IF name = <<"M", "W", "E", "T", "H">> THEN table[<<"E", "T", "H">>]
  ELSE table[name]

\* C14: the descriptor registerLogicalSchema submits for an entry has as
\* target the address-table entry of the entry's contract name (MDAI as
\* MCD_DAI, MWETH as ETH), as call the contractCall text followed by each
\* call argument, passed through its transform when it has one, in order,
\* and as returns one pair of fully-qualified key and transform per return
\* key, in order, the key built from the untransformed argument identifiers
\* (the overrides when supplied).
C14_DescriptorShape ==
  [][\A e \in DescriptorEntries :
       (watcher /\ registerLogicalSchema(<<e>>)) =>
         /\ result'.err = "none"
         /\ Len(calls') = Len(calls) + 1
         /\ LET d == calls'[Len(calls')]
            IN /\ d.target = Resolved(ContractAddresses, e.contractName)
               /\ d.target = addresses'[e.contractName]
               /\ d.call =
                    <<e.contractCall>> \o
                      [i \in 1..Len(e.callArgs) |->
                         IF e.callArgs[i].cb
                         THEN ArgTransform(e.callArgs[i].arg)
                         ELSE e.callArgs[i].arg]
               /\ d.returns =
                    [i \in 1..Len(e.returnKeys) |->
                       [key |-> FullyQualifiedKey(e, i),
                        cb |-> e.returnKeys[i].cb]]]_vars

\* C14 witness: a descriptor for contract name MDAI with a transformed
\* argument and an argument override, and one for MWETH with a return
\* transform, have been submitted with the addresses of MCD_DAI and of ETH.
C14_Witness ==
  /\ \E i \in 1..Len(calls) :
       /\ calls[i].target = ContractAddresses[<<"M", "C", "D", "_", "D", "A", "I">>]
       /\ calls[i].call = <<EntryF.contractCall, ArgTransform(<<"1">>)>>
       /\ calls[i].returns[1].key =
            <<"M", "D", "A", "I", ".", "f", ".", "o", ".", "k">>
  /\ \E i \in 1..Len(calls) :
       /\ calls[i].target = ContractAddresses[<<"E", "T", "H">>]
       /\ Len(calls[i].returns) = 2
       /\ calls[i].returns[2].cb
       /\ calls[i].returns[2].key =
            <<"M", "W", "E", "T", "H", ".", "g", ".", ".", "q">>

\* After a call, entry e has the stream of its observable key k in the
\* registry: lookup at the key's path gives a stream the call made for e, k.
RegisteredKey(e, k) ==
  LET n == LookupNext(e.observableKeys[k])
  IN /\ n > Len(streams)
     /\ streams'[n].entry = e
     /\ streams'[n].idx = k

\* After a call, the descriptor of entry i of its list is in the call list.
Submitted(i) == Len(calls') >= Len(calls) + i

\* C15: after a registerLogicalSchema call on a service with an executor,
\* whether it returned or raised, every entry of its list has either all
\* the streams of its observable keys in the registry and its descriptor in
\* the call list, or none of its streams in the registry and no descriptor
\* in the call list.
C15_EntryAllOrNothing ==
  [][\A schemas \in SeqsUpTo(FailingEntries, MaxSchemas) :
       (watcher /\ registerLogicalSchema(schemas)) =>
         \A i \in 1..Len(schemas) :
           LET e == schemas[i]
               keys == 1..Len(e.observableKeys)
           IN \/ /\ \A k \in keys : RegisteredKey(e, k)
                 /\ Submitted(i)
              \/ /\ \A k \in keys : ~RegisteredKey(e, k)
                 /\ ~Submitted(i)]_vars

\* C16: however many times startObservable was called, the service holds at
\* most one subscription on the executor, and an event the executor emits
\* is put into the Result Stream once and given once to every subscriber of
\* a stream of its type.
C16_ExactlyOnceForwarding ==
  [][\A ev \in Events :
       (listeners >= 1 /\ watcherUpdate(ev)) =>
         /\ listeners = 1
         /\ rootObservable' = Append(rootObservable, ev)
         /\ \A sub \in subscribers :
              (/\ streams[sub.stream].kind = "filtered"
               /\ streams[sub.stream].key = ev.type)
              => [sub EXCEPT !.received = Append(@, ev.value)]
                   \in subscribers']_vars

\* C17: the registry snapshot held before a call gives, for every path, the
\* same lookup result after the call as it gave before it.
C17_SnapshotsImmutable ==
  [][\A P \in Paths :
       getObservable(streams', observableStore, Join(P, "."))
         = getObservable(streams, observableStore, Join(P, "."))]_vars

\* C18: in a registerDerivedSchema call every combining function that is
\* invoked is given streams only, and an entry with a dependency path at
\* which no stream is registered when the entry is processed (no node, or
\* an internal node of the registry) is passed over.
C18_OnlyStreamsResolve ==
  [][\A schemas \in DerivedSchemas :
       registerDerivedSchema(schemas) =>
         LET r == CompileDerived(observableStore, streams, schemas)
         IN /\ \A k \in 1..Len(r.invoked) :
                 \A j \in 1..Len(r.invoked[k].args) :
                   IsStream(r.invoked[k].args[j])
            /\ \A i \in 1..Len(schemas) :
                 LET b == Before(schemas, i)
                 IN (\E j \in 1..Len(schemas[i].dependencies) :
                       ~IsStream(getObservable(b.streams, b.store,
                                   Join(schemas[i].dependencies[j], "."))))
                    => i \in result'.skipped]_vars

RECURSIVE Repeat(_, _, _, _)
\* The registry and the streams after k registerDerivedSchema calls with
\* the same list, from registry store and streams ss.
Repeat(store, ss, schemas, k) ==
  IF k = 0 THEN [store |-> store, streams |-> ss]
  ELSE LET r == CompileDerived(store, ss, schemas)
       IN Repeat(r.store, r.streams, schemas, k - 1)

\* The paths at which the registry of run r holds a stream.
RegisteredPaths(r) ==
  {P \in Paths \cup {PathDE} :
     IsStream(getObservable(r.streams, r.store, Join(P, ".")))}

\* Entry i of the list depends on entry j of the list.
DependsOn(schemas, i, j) ==
  \E k \in 1..Len(schemas[i].dependencies) :
    schemas[i].dependencies[k] = schemas[j].observableKeys

\* The dependencies of the list are registered streams of logical entries
\* or paths of other entries of the list, without a cycle.
AcyclicOverRegistered(schemas) ==
  /\ \A i \in 1..Len(schemas) :
       \A k \in 1..Len(schemas[i].dependencies) :
         LET n == Lookup(schemas[i].dependencies[k])
         IN \/ IsStream(n) /\ streams[n].kind = "filtered"
            \/ \E j \in 1..Len(schemas) :
                 j # i /\ schemas[j].observableKeys
                            = schemas[i].dependencies[k]
  /\ \E rank \in [1..Len(schemas) -> 1..Len(schemas)] :
       \A i, j \in 1..Len(schemas) :
         DependsOn(schemas, i, j) => rank[j] < rank[i]

\* C19: for a list of n derived entries with acyclic dependencies over
\* registered logical paths and one another's paths, in any order, one
\* registerDerivedSchema call passes over exactly the entries with a
\* dependency that does not resolve when they are processed; after n calls
\* with the list every entry's path is registered, and a further call
\* leaves the set of registered paths as it is.
C19_RecompilationConverges ==
  [][\A schemas \in SeqsUpTo(ChainedEntries, MaxSchemas) :
       (AcyclicOverRegistered(schemas) /\ registerDerivedSchema(schemas)) =>
         LET n == Len(schemas)
             a == Repeat(observableStore, streams, schemas, n)
             b == Repeat(observableStore, streams, schemas, n + 1)
         IN /\ result'.err = "none"
            /\ \A i \in 1..n :
                 i \in result'.skipped
                   <=> Unmet(Before(schemas, i), schemas[i])
            /\ \A i \in 1..n : schemas[i].observableKeys \in RegisteredPaths(a)
            /\ RegisteredPaths(b) = RegisteredPaths(a)]_vars

\* The lists of C19 none of whose entries has a path that runs through the
\* path of another.
C19_DisjointPathsConverge ==
  [][\A schemas \in SeqsUpTo({DerivedD, DerivedE}, MaxSchemas) :
       (AcyclicOverRegistered(schemas) /\ registerDerivedSchema(schemas)) =>
         LET n == Len(schemas)
             a == Repeat(observableStore, streams, schemas, n)
             b == Repeat(observableStore, streams, schemas, n + 1)
         IN /\ result'.err = "none"
            /\ \A i \in 1..n :
                 i \in result'.skipped
                   <=> Unmet(Before(schemas, i), schemas[i])
            /\ \A i \in 1..n : schemas[i].observableKeys \in RegisteredPaths(a)
            /\ RegisteredPaths(b) = RegisteredPaths(a)]_vars

\* What tells one call from another: the contract name, the parsed function
\* name and the sequence of argument identifiers.
CallIdentity(e) ==
  <<e.contractName,
    destructureContractCall(e.contractCall).callFnName,
    IF e.callArgsOverrides.given THEN e.callArgsOverrides.ids
    ELSE [j \in 1..Len(e.callArgs) |-> e.callArgs[j].arg]>>

\* The call key registerLogicalSchema computes for entry e.
CallKey(e) ==
  callKeyStructure(e, destructureContractCall(e.contractCall).callFnName)

\* C20: an entry that is registered gets a call key that differs from the
\* call key of every registered entry for a different call (another
\* contract name, function name or sequence of argument identifiers), and a
\* result event addressed to a return key of one call is not given to the
\* subscribers of a stream registered for a different call.
C20_CallKeyUnique ==
  [][/\ \A e \in KeyEntries :
          (watcher /\ registerLogicalSchema(<<e>>) /\ result'.err = "none") =>
            \A n \in 1..Len(streams) :
              CallIdentity(streams[n].entry) # CallIdentity(e)
                => CallKey(streams[n].entry) # CallKey(e)
     /\ \A ev \in KeyEvents :
          watcherUpdate(ev) =>
            \A sub \in subscribers, n \in 1..Len(streams) :
              (/\ CallIdentity(streams[n].entry)
                    # CallIdentity(streams[sub.stream].entry)
               /\ \E k \in 1..Len(streams[n].entry.returnKeys) :
                    ev.type = FullyQualifiedKey(streams[n].entry, k))
              => sub \in subscribers']_vars

=============================================================================
